---- MODULE Spec2Model ----
(***************************************************************************)
(* State-machine model of BaseStation/BaseStation/base_station.py:         *)
(* BaseStationLogic (robot fleet connect/disconnect, refbox link guard and *)
(* callbacks, the periodic update cycle), ROSBaseStation (the ten publish  *)
(* timers) and main() (start-up, spin, Tk main loop, clean-up).            *)
(*                                                                         *)
(* Robot, RefBoxHandler and GlobalWorld live in modules that are imported  *)
(* by base_station.py; their behaviour is taken from the written design    *)
(* (sections 4.1, 4.2, 4.4) and marked as such where it is defined.        *)
(***************************************************************************)
EXTENDS Integers, Sequences, FiniteSets, TLC

\* ---------------------------------------------------------------- bounds
\* Largest number of own robots / opponents in the configured roster.
MaxRobots == 2
MaxOpponents == 1
\* Largest number of consecutive failed refbox connection attempts.
MaxFailures == 2

\* ------------------------------------------------------- program constants
\* for i in range(0, 5): five o-channels and five e-channels.
NumChannels == 5

\* ------------------------------------------------------------------ texts
\* Python strings are modelled as sequences of one-character strings so that
\* the `in` operator is a real substring search.
W_Connection == <<"C","o","n","n","e","c","t","i","o","n">>
W_connection == <<"c","o","n","n","e","c","t","i","o","n">>
W_Established == <<"E","s","t","a","b","l","i","s","h","e","d">>
W_Connected == <<"C","o","n","n","e","c","t","e","d">>
W_to == <<"t","o">>
W_RefBox == <<"R","e","f","B","o","x">>
W_refused == <<"r","e","f","u","s","e","d">>
W_error == <<"e","r","r","o","r">>
W_START == <<"S","T","A","R","T">>
SP == <<" ">>

S_ConnectionEstablished == W_Connection \o SP \o W_Established
S_ConnectedToRefBox == W_Connected \o SP \o W_to \o SP \o W_RefBox
S_connection_refused == W_connection \o SP \o W_refused
S_connection_error == W_connection \o SP \o W_error

\* Texts the refbox link can deliver: the lifecycle lines, ordinary referee
\* lines, and lines that embed or nearly match a sentinel.
M_Established == S_ConnectionEstablished
M_ConnectedTo == S_ConnectedToRefBox \o SP \o <<"1">>
M_Refused == <<"[","!","]">> \o SP \o S_connection_refused
M_Error == S_connection_error \o <<":">> \o SP \o <<"x">>
M_Start == W_START
M_NearMiss == W_Connection \o SP \o W_refused
M_Reconn == <<"r","e">> \o S_connection_refused
M_Both == S_ConnectionEstablished \o <<",">> \o SP \o S_connection_error
M_Retry == S_connection_refused \o <<";">> \o SP \o S_ConnectionEstablished

EstablishedMessages == {M_Established, M_ConnectedTo}
FailureMessages == {M_Refused, M_Error}
Messages == {M_Established, M_ConnectedTo, M_Refused, M_Error,
             M_Start, M_NearMiss, M_Reconn, M_Both, M_Retry}

\* Python: sub in s
Contains(sub, s) ==
    \E i \in 0..(Len(s) - Len(sub)) : SubSeq(s, i + 1, i + Len(sub)) = sub

\* --------------------------------------------------------------- numbers
\* A coordinate keeps its Python type: float(x) changes the type, not the value.
IntNum(n) == [k |-> "int", v |-> n]
FloatNum(n) == [k |-> "float", v |-> n]
float(x) == [k |-> "float", v |-> x.v]
FloatList(p) == [j \in 1..Len(p) |-> float(p[j])]

DefaultPosition == <<IntNum(0), IntNum(0)>>
\* Telemetry samples a robot can report.
Samples == {<<FloatNum(1), FloatNum(2)>>, <<FloatNum(3), FloatNum(1)>>}
NoSample == <<>>

\* ---------------------------------------------------------------- roster
RobotNames == <<"R1", "R2", "R3", "R4", "R5", "R6">>
OpponentNames == <<"E1", "E2", "E3", "E4", "E5", "E6">>

\* ---------------------------------------------------------------- events
\* One call of a collaborator made by a handler.
Ev(e, w) == [ev |-> e, who |-> w, text |-> <<>>, flag |-> FALSE]
EvText(e, t) == [ev |-> e, who |-> "", text |-> t, flag |-> FALSE]
EvFlag(e, b) == [ev |-> e, who |-> "", text |-> <<>>, flag |-> b]
EvRet(e, w, b) == [ev |-> e, who |-> w, text |-> <<>>, flag |-> b]

Count(trace, e) == Cardinality({i \in 1..Len(trace) : trace[i].ev = e})
Positions(trace, e) == {i \in 1..Len(trace) : trace[i].ev = e}

\* ------------------------------------------------------------ Python dict
\* An insertion-ordered mapping: d[k] = v overwrites an existing key in place.
DictKeys(d) == {d[i][1] : i \in 1..Len(d)}
DictSet(d, k, v) ==
    IF k \in DictKeys(d)
    THEN [i \in 1..Len(d) |-> IF d[i][1] = k THEN <<k, v>> ELSE d[i]]
    ELSE Append(d, <<k, v>>)
DictGet(d, k) == LET i == CHOOSE j \in 1..Len(d) : d[j][1] = k IN d[i][2]

VARIABLES
    robots,        \* ui.robots: the own-robot roster (Robot objects)
    opponents,     \* ui.opponents
    world,         \* ui.global_world: identity -> position
    overall_robot_connection_active,
    refbox,        \* the RefBoxHandler
    pending_updates,    \* update ticks scheduled with root.after
    ros,           \* the ROSBaseStation node
    pc,            \* position of main()
    lastCall       \* the handler that ran last, what it called and returned

vars == <<robots, opponents, world, overall_robot_connection_active, refbox,
          pending_updates, ros, pc, lastCall>>

\* What a handler leaves behind for an observer: the calls it made on its
\* collaborators in order, its return value, what it published, whether it
\* raised.
Call(op, arg, trace, results, emitted, raised) ==
    [op |-> op, arg |-> arg, trace |-> trace, results |-> results,
     emitted |-> emitted, raised |-> raised]

\* ------------------------------------------------------------ Robot (4.1)
NewRobot(name, handler) ==
    [name |-> name, wifi_handler |-> handler, connected |-> FALSE,
     telemetry |-> NoSample, position |-> DefaultPosition]

\* Robot.connect() -> bool: reports success or failure, never raises.
RobotConnect(r, ok) == [r EXCEPT !.connected = ok]
\* Robot.disconnect(): safe on an already disconnected robot.
RobotDisconnect(r) == [r EXCEPT !.connected = FALSE]
\* handle_received_data: the robot's state follows the decoded telemetry.
RobotReceive(r, s) == [r EXCEPT !.telemetry = s, !.position = s]

\* ------------------------------------------------- BaseStationLogic, fleet
\* Body of `for robot in self.robots` in connect_to_robots.
\* Variant: the else branch of `if robot.wifi_handler` records nothing.
ConnectBodyNoElse(robot, ok, i, acc) ==
    IF robot.wifi_handler
    THEN [robots |-> [acc.robots EXCEPT ![i] = RobotConnect(robot, ok)],
          results |-> DictSet(acc.results, robot.name,
                              IF ok THEN "Connected" ELSE "Failed"),
          trace |-> acc.trace \o <<EvRet("connect", robot.name, ok),
                                   Ev("log_message", robot.name)>>]
    ELSE [robots |-> acc.robots, results |-> acc.results,
          trace |-> Append(acc.trace, Ev("log_message", robot.name))]

\* Variant: the two result strings are exchanged.
ConnectBodySwapped(robot, ok, i, acc) ==
    IF robot.wifi_handler
    THEN [robots |-> [acc.robots EXCEPT ![i] = RobotConnect(robot, ok)],
          results |-> DictSet(acc.results, robot.name,
                              IF ok THEN "Failed" ELSE "Connected"),
          trace |-> acc.trace \o <<EvRet("connect", robot.name, ok),
                                   Ev("log_message", robot.name)>>]
    ELSE [robots |-> acc.robots,
          results |-> DictSet(acc.results, robot.name, "No Handler"),
          trace |-> Append(acc.trace, Ev("log_message", robot.name))]

\* Variant: the presentation refresh is requested after each connected robot.
ConnectBodyRefreshing(robot, ok, i, acc) ==
    IF robot.wifi_handler
    THEN [robots |-> [acc.robots EXCEPT ![i] = RobotConnect(robot, ok)],
          results |-> DictSet(acc.results, robot.name,
                              IF ok THEN "Connected" ELSE "Failed"),
          trace |-> acc.trace \o <<EvRet("connect", robot.name, ok),
                                   Ev("log_message", robot.name)>>
                    \o (IF ok THEN <<Ev("update_robot_ui_elements", "")>> ELSE <<>>)]
    ELSE [robots |-> acc.robots,
          results |-> DictSet(acc.results, robot.name, "No Handler"),
          trace |-> Append(acc.trace, Ev("log_message", robot.name))]

\* ok is what robot.connect() returns; the "connect" event records it.
ConnectBody(robot, ok, i, acc) ==
    IF robot.wifi_handler
    THEN LET called == [robots |-> [acc.robots EXCEPT ![i] = RobotConnect(robot, ok)],
                        trace |-> Append(acc.trace, EvRet("connect", robot.name, ok))]
         IN IF ok
            THEN [robots |-> called.robots,
                  results |-> DictSet(acc.results, robot.name, "Connected"),
                  trace |-> Append(called.trace, Ev("log_message", robot.name))]
            ELSE [robots |-> called.robots,
                  results |-> DictSet(acc.results, robot.name, "Failed"),
                  trace |-> Append(called.trace, Ev("log_message", robot.name))]
    ELSE [robots |-> acc.robots,
          results |-> DictSet(acc.results, robot.name, "No Handler"),
          trace |-> Append(acc.trace, Ev("log_message", robot.name))]

\* Variant: the loop stops at the first robot whose connect() fails.
RECURSIVE ConnectLoopAbort(_, _, _, _)
ConnectLoopAbort(rs, outcome, i, acc) ==
    IF i > Len(rs) THEN acc
    ELSE IF rs[i].wifi_handler /\ ~outcome[i]
         THEN ConnectBody(rs[i], outcome[i], i, acc)
         ELSE ConnectLoopAbort(rs, outcome, i + 1,
                               ConnectBody(rs[i], outcome[i], i, acc))

RECURSIVE ConnectLoop(_, _, _, _)
ConnectLoop(rs, outcome, i, acc) ==
    IF i > Len(rs) THEN acc
    ELSE ConnectLoop(rs, outcome, i + 1, ConnectBody(rs[i], outcome[i], i, acc))

\* Variant: the flag is set only when some robot is connected afterwards.
connect_to_robots_active_if_connected(rs, outcome) ==
    LET acc == ConnectLoop(rs, outcome, 1,
                   [robots |-> rs, results |-> <<>>,
                    trace |-> <<Ev("log_message", "")>>])
    IN [robots |-> acc.robots,
        active |-> \E i \in 1..Len(acc.robots) : acc.robots[i].connected,
        results |-> acc.results,
        trace |-> Append(acc.trace, Ev("update_robot_ui_elements", "")),
        raised |-> FALSE]

\* connect_to_robots(): outcome[i] is what robot i's connect() would return.
connect_to_robots(rs, outcome) ==
    LET acc == ConnectLoop(rs, outcome, 1,
                   [robots |-> rs, results |-> <<>>,
                    trace |-> <<Ev("log_message", "")>>])
    IN [robots |-> acc.robots,
        active |-> TRUE,
        results |-> acc.results,
        trace |-> Append(acc.trace, Ev("update_robot_ui_elements", "")),
        raised |-> FALSE]

\* Variant: only robots that report connected are disconnected.
DisconnectBodyOnlyConnected(robot, i, acc) ==
    IF robot.connected
    THEN [robots |-> [acc.robots EXCEPT ![i] = RobotDisconnect(robot)],
          trace |-> Append(acc.trace, Ev("disconnect", robot.name))]
    ELSE acc

\* Body of `for robot in self.robots` in disconnect_from_robots.
DisconnectBody(robot, i, acc) ==
    [robots |-> [acc.robots EXCEPT ![i] = RobotDisconnect(robot)],
     trace |-> Append(acc.trace, Ev("disconnect", robot.name))]

RECURSIVE DisconnectLoop(_, _, _)
DisconnectLoop(rs, i, acc) ==
    IF i > Len(rs) THEN acc
    ELSE DisconnectLoop(rs, i + 1, DisconnectBody(rs[i], i, acc))

disconnect_from_robots(rs) ==
    LET acc == DisconnectLoop(rs, 1,
                   [robots |-> rs, trace |-> <<Ev("log_message", "")>>])
    IN [robots |-> acc.robots,
        active |-> FALSE,
        trace |-> acc.trace \o <<Ev("update_robot_ui_elements", ""),
                                 Ev("log_message", "")>>,
        raised |-> FALSE]

\* ------------------------------------------------------ RefBoxHandler (4.2)
\* failures counts the consecutive attempts that ended in Failed.
NewRefBox == [state |-> "Disconnected", connected |-> FALSE, failures |-> 0]
\* Variant: `connected` is set only once the connection is established.
RefBoxHandlerConnectLate(rb) ==
    IF rb.state \in {"Connecting", "Connected"} THEN rb
    ELSE [rb EXCEPT !.state = "Connecting"]
\* RefBoxHandler.connect(): starts an attempt; `connected` is set from the
\* start of the attempt ("already trying to connect or is connected").
RefBoxHandlerConnect(rb) ==
    IF rb.state \in {"Connecting", "Connected"} THEN rb
    ELSE [rb EXCEPT !.state = "Connecting", !.connected = TRUE]
RefBoxHandlerEstablished(rb) ==
    [state |-> "Connected", connected |-> TRUE, failures |-> 0]
\* Variant: a failed attempt leaves `connected` set.
RefBoxHandlerFailedKeepsFlag(rb) ==
    [state |-> "Failed", connected |-> rb.connected,
     failures |-> rb.failures + 1]
RefBoxHandlerFailed(rb) ==
    [state |-> "Failed", connected |-> FALSE, failures |-> rb.failures + 1]
\* RefBoxHandler.stop() and the end of the read loop.
RefBoxHandlerStop(rb) ==
    [state |-> "Disconnected", connected |-> FALSE, failures |-> 0]

\* ------------------------------------------------ BaseStationLogic, refbox
\* Variant: the `connected` check is missing.
connect_to_refbox_unguarded(rb) ==
    [refbox |-> RefBoxHandlerConnect(rb),
     trace |-> <<Ev("RefBoxHandler.connect", "")>>]

connect_to_refbox(rb) ==
    IF ~rb.connected
    THEN [refbox |-> RefBoxHandlerConnect(rb),
          trace |-> <<Ev("RefBoxHandler.connect", "")>>]
    ELSE [refbox |-> rb, trace |-> <<Ev("log_message", "")>>]

\* Variant: only texts without a lifecycle sentinel reach the log.
handle_refbox_message_log_in_else(message) ==
    IF Contains(S_ConnectionEstablished, message)
       \/ Contains(S_ConnectedToRefBox, message)
    THEN [trace |-> <<EvFlag("update_refbox_status", TRUE)>>]
    ELSE IF Contains(S_connection_refused, message)
            \/ Contains(S_connection_error, message)
    THEN [trace |-> <<EvFlag("update_refbox_status", FALSE)>>]
    ELSE [trace |-> <<EvText("log_refbox_message", message)>>]

\* Variant: a text without a lifecycle sentinel is reported as a failure.
handle_refbox_message_else_false(message) ==
    LET classified ==
            IF Contains(S_ConnectionEstablished, message)
               \/ Contains(S_ConnectedToRefBox, message)
            THEN <<EvFlag("update_refbox_status", TRUE)>>
            ELSE <<EvFlag("update_refbox_status", FALSE)>>
    IN [trace |-> Append(classified, EvText("log_refbox_message", message))]

handle_refbox_message(message) ==
    LET classified ==
            IF Contains(S_ConnectionEstablished, message)
               \/ Contains(S_ConnectedToRefBox, message)
            THEN <<EvFlag("update_refbox_status", TRUE)>>
            ELSE IF Contains(S_connection_refused, message)
                    \/ Contains(S_connection_error, message)
            THEN <<EvFlag("update_refbox_status", FALSE)>>
            ELSE <<>>
    IN [trace |-> Append(classified, EvText("log_refbox_message", message))]

handle_refbox_disconnect ==
    [trace |-> <<EvFlag("update_refbox_status", FALSE), Ev("log_message", "")>>]

stop_refbox(rb) ==
    [refbox |-> RefBoxHandlerStop(rb), trace |-> <<Ev("RefBoxHandler.stop", "")>>]

\* ------------------------------------------------------- GlobalWorld (4.4)
\* update_from_robots(robots): every identity whose link holds a telemetry
\* sample takes that sample; every other entry keeps its value.
HasSample(r) == r.wifi_handler /\ r.telemetry # NoSample
\* Variant: a sample is added onto the stored position instead of replacing it.
AddPositions(p, q) ==
    [j \in 1..Len(p) |-> [k |-> "float", v |-> (p[j].v + q[j].v) % 8]]
update_from_robots_accumulating(w, rs) ==
    [id \in DOMAIN w |->
        IF \E i \in 1..Len(rs) : rs[i].name = id /\ HasSample(rs[i])
        THEN AddPositions(w[id],
                 rs[CHOOSE i \in 1..Len(rs) : rs[i].name = id /\ HasSample(rs[i])].telemetry)
        ELSE w[id]]

update_from_robots(w, rs) ==
    [id \in DOMAIN w |->
        IF \E i \in 1..Len(rs) : rs[i].name = id /\ HasSample(rs[i])
        THEN rs[CHOOSE i \in 1..Len(rs) : rs[i].name = id /\ HasSample(rs[i])].telemetry
        ELSE w[id]]

\* ------------------------------------------- BaseStationLogic, update cycle
\* Variant: the successor is scheduled before the three steps have run.
update_world_state_and_ui_reschedule_first(w, rs, pending) ==
    [world |-> update_from_robots(w, rs),
     trace |-> <<Ev("after", ""), Ev("update_from_robots", ""),
                 Ev("redraw_field", ""), Ev("update_robot_ui_elements", "")>>,
     pending |-> pending + 1]

\* Variant: the merge is handed an empty list instead of self.robots.
update_world_state_and_ui_wrong_list(w, rs, pending) ==
    [world |-> update_from_robots(w, <<>>),
     trace |-> <<Ev("update_from_robots", ""), Ev("redraw_field", ""),
                 Ev("update_robot_ui_elements", ""), Ev("after", "")>>,
     pending |-> pending + 1]

update_world_state_and_ui(w, rs, pending) ==
    [world |-> update_from_robots(w, rs),
     trace |-> <<Ev("update_from_robots", ""), Ev("redraw_field", ""),
                 Ev("update_robot_ui_elements", ""), Ev("after", "")>>,
     pending |-> pending + 1]

\* ---------------------------------------------------------- ROSBaseStation
NoNode == [created |-> FALSE, robots |-> <<>>, opponents |-> <<>>, timers |-> FALSE]

\* __init__: positions become lists of floats; own robots and opponents are
\* both appended to self.robots (references to the shared objects).
FloatPositions(rs) == [i \in 1..Len(rs) |-> [rs[i] EXCEPT !.position = FloatList(@)]]
ROSBaseStationInit(rs, ops) ==
    [robots |-> FloatPositions(rs),
     opponents |-> FloatPositions(ops),
     node |-> [created |-> TRUE,
               robots |-> [i \in 1..Len(rs) |-> <<"robot", i>>]
                          \o [j \in 1..Len(ops) |-> <<"opponent", j>>],
               opponents |-> <<>>,
               timers |-> TRUE]]

\* The lambda defaults of the timers: robot_index=i-1, pub_name=f'o{i+1}'.
TimerIndex(i) == i - 1
TimerName(kind, i) == <<kind, i + 1>>

\* Python list indexing: the 1-based slot read by lst[idx], 0 for IndexError.
PyIndex(len, idx) ==
    IF idx >= 0 /\ idx < len THEN idx + 1
    ELSE IF idx < 0 /\ (0 - idx) <= len THEN len + idx + 1
    ELSE 0

Entity(ref, rs, ops) == IF ref[1] = "robot" THEN rs[ref[2]] ELSE ops[ref[2]]

Message(publisher_name, robot_pos, ref, idx) ==
    [label |-> publisher_name \o <<"_data">>,
     size |-> Len(robot_pos), stride |-> Len(robot_pos), data_offset |-> 0,
     data |-> robot_pos,
     \* not part of the message: which entity was read, for which robot_index
     entity |-> ref, robot_index |-> idx]

\* Variant: the message is built and published outside the bounds check, with
\* an empty position when the index has no entity.
publish_robot_unchecked(node, rs, ops, robot_index, publisher_name) ==
    LET slot == PyIndex(Len(node.robots), robot_index)
        ref == IF slot = 0 THEN <<"none", 0>> ELSE node.robots[slot]
        robot_pos == IF slot = 0 THEN <<FloatNum(0)>>
                     ELSE Append(Entity(ref, rs, ops).position, FloatNum(0))
    IN [emitted |-> <<Message(publisher_name, robot_pos, ref, robot_index)>>,
        trace |-> <<Ev("publish", ""), Ev("info", "")>>,
        raised |-> FALSE, robots |-> rs, opponents |-> ops]

\* Variant: the position is not copied, the 0.0 is appended to the stored list.
publish_robot_nocopy(node, rs, ops, robot_index, publisher_name) ==
    IF robot_index < Len(node.robots)
    THEN LET slot == PyIndex(Len(node.robots), robot_index) IN
         IF slot = 0
         THEN [emitted |-> <<>>, trace |-> <<>>, raised |-> TRUE,
               robots |-> rs, opponents |-> ops]
         ELSE LET ref == node.robots[slot]
                  robot_pos == Append(Entity(ref, rs, ops).position, FloatNum(0))
              IN [emitted |-> <<Message(publisher_name, robot_pos, ref, robot_index)>>,
                  trace |-> <<Ev("publish", ""), Ev("info", "")>>,
                  raised |-> FALSE,
                  robots |-> IF ref[1] = "robot"
                             THEN [rs EXCEPT ![ref[2]].position = robot_pos]
                             ELSE rs,
                  opponents |-> IF ref[1] = "opponent"
                                THEN [ops EXCEPT ![ref[2]].position = robot_pos]
                                ELSE ops]
    ELSE [emitted |-> <<>>, trace |-> <<>>, raised |-> FALSE,
          robots |-> rs, opponents |-> ops]

\* publish_robot: the 0.0 is appended to a copy of the stored position; rs and
\* ops are the entities as the call leaves them.
publish_robot(node, rs, ops, robot_index, publisher_name) ==
    IF robot_index < Len(node.robots)
    THEN LET slot == PyIndex(Len(node.robots), robot_index) IN
         IF slot = 0
         THEN [emitted |-> <<>>, trace |-> <<>>, raised |-> TRUE,
               robots |-> rs, opponents |-> ops]
         ELSE LET ref == node.robots[slot]
                  robot_pos == Append(Entity(ref, rs, ops).position, FloatNum(0))
              IN [emitted |-> <<Message(publisher_name, robot_pos, ref, robot_index)>>,
                  trace |-> <<Ev("publish", ""), Ev("info", "")>>,
                  raised |-> FALSE, robots |-> rs, opponents |-> ops]
    ELSE [emitted |-> <<>>, trace |-> <<>>, raised |-> FALSE,
          robots |-> rs, opponents |-> ops]

\* ------------------------------------------------------------------- Init
\* BaseStationUI(root) has built the roster from the configuration;
\* BaseStationLogic.__init__ has run.
Rosters ==
    UNION {{[i \in 1..n |-> NewRobot(RobotNames[i], h[i])] : h \in [1..n -> BOOLEAN]}
           : n \in 0..MaxRobots}
OpponentRosters ==
    {[j \in 1..m |-> NewRobot(OpponentNames[j], FALSE)] : m \in 0..MaxOpponents}
NamesOf(rs) == {rs[i].name : i \in 1..Len(rs)}

Init ==
    /\ robots \in Rosters
    /\ opponents \in OpponentRosters
    /\ world = [id \in NamesOf(robots) \cup NamesOf(opponents) |-> DefaultPosition]
    /\ overall_robot_connection_active = FALSE
    /\ refbox = NewRefBox
    /\ pending_updates = 0
    /\ ros = NoNode
    /\ pc = "start"
    /\ lastCall = Call("__init__", <<>>, <<>>, <<>>, <<>>, FALSE)

Running == pc \notin {"done", "crashed"}

\* ------------------------------------------------------- fleet operations
DoConnectToRobots ==
    \E outcome \in [1..Len(robots) -> BOOLEAN] :
        LET r == connect_to_robots(robots, outcome) IN
        /\ robots' = r.robots
        /\ overall_robot_connection_active' = r.active
        /\ lastCall' = Call("connect_to_robots", <<>>, r.trace, r.results,
                            <<>>, r.raised)

DoDisconnectFromRobots ==
    LET r == disconnect_from_robots(robots) IN
    /\ robots' = r.robots
    /\ overall_robot_connection_active' = r.active
    /\ lastCall' = Call("disconnect_from_robots", <<>>, r.trace, <<>>,
                        <<>>, r.raised)

DoUpdate(fired) ==
    LET r == update_world_state_and_ui(world, robots, pending_updates - fired) IN
    /\ world' = r.world
    /\ pending_updates' = r.pending
    /\ lastCall' = Call("update_world_state_and_ui", <<>>, r.trace, <<>>,
                        <<>>, FALSE)

DoStopRefbox ==
    LET r == stop_refbox(refbox)
        cb == handle_refbox_disconnect
        wasUp == refbox.state \in {"Connecting", "Connected"}
    IN
    /\ refbox' = r.refbox
    /\ lastCall' = Call("stop_refbox", <<>>,
                        IF wasUp THEN r.trace \o cb.trace ELSE r.trace,
                        <<>>, <<>>, FALSE)

\* ------------------------------------------------------------------ main()
\* logic.connect_to_robots()
MainConnectToRobots ==
    /\ pc = "start"
    /\ DoConnectToRobots
    /\ pc' = "connected"
    /\ UNCHANGED <<opponents, world, refbox, pending_updates, ros>>

\* logic.update_world_state_and_ui()
MainFirstUpdate ==
    /\ pc = "connected"
    /\ DoUpdate(0)
    /\ pc' = "updated"
    /\ UNCHANGED <<robots, opponents, overall_robot_connection_active, refbox,
                   ros>>

\* ros_bs = ROSBaseStation(logic.robots, logic.opponents, ...); rclpy.spin
MainCreateNode ==
    /\ pc = "updated"
    /\ LET r == ROSBaseStationInit(robots, opponents) IN
       /\ robots' = r.robots
       /\ opponents' = r.opponents
       /\ ros' = r.node
    /\ pc' = "spin"
    /\ lastCall' = Call("ROSBaseStation", <<>>, <<>>, <<>>, <<>>, FALSE)
    /\ UNCHANGED <<world, overall_robot_connection_active, refbox,
                   pending_updates>>

\* One of the ten timers fires inside rclpy.spin.  An exception of the
\* callback leaves spin, runs the finally block and ends main().
PublishTimer(kind, i) ==
    /\ pc = "spin"
    /\ ros.timers
    /\ LET r == publish_robot(ros, robots, opponents, TimerIndex(i),
                              TimerName(kind, i)) IN
       /\ lastCall' = Call("publish_robot", <<TimerIndex(i), TimerName(kind, i)>>,
                           r.trace, <<>>, r.emitted,
                           r.raised)
       /\ robots' = r.robots
       /\ opponents' = r.opponents
       /\ pc' = IF r.raised THEN "crashed" ELSE pc
       /\ ros' = IF r.raised THEN [ros EXCEPT !.timers = FALSE] ELSE ros
    /\ UNCHANGED <<world, overall_robot_connection_active,
                   refbox, pending_updates>>

\* KeyboardInterrupt: destroy_node(), rclpy.shutdown(), then root.mainloop()
SpinInterrupt ==
    /\ pc = "spin"
    /\ ros' = [ros EXCEPT !.timers = FALSE]
    /\ pc' = "mainloop"
    /\ lastCall' = Call("destroy_node", <<>>, <<>>, <<>>, <<>>, FALSE)
    /\ UNCHANGED <<robots, opponents, world, overall_robot_connection_active,
                   refbox, pending_updates>>

\* The window is closed: root.mainloop() returns.
CloseWindow ==
    /\ pc = "mainloop"
    /\ pc' = "closing"
    /\ lastCall' = Call("mainloop_exit", <<>>, <<>>, <<>>, <<>>, FALSE)
    /\ UNCHANGED <<robots, opponents, world, overall_robot_connection_active,
                   refbox, pending_updates, ros>>

\* logic.disconnect_from_robots()
MainDisconnect ==
    /\ pc = "closing"
    /\ DoDisconnectFromRobots
    /\ pc' = "stopping"
    /\ UNCHANGED <<opponents, world, refbox, pending_updates, ros>>

\* Variant: the two clean-up calls are exchanged, stop_refbox comes first.
MainStopRefboxFirst ==
    /\ pc = "closing"
    /\ DoStopRefbox
    /\ pc' = "done"
    /\ UNCHANGED <<robots, opponents, world, overall_robot_connection_active,
                   pending_updates, ros>>

\* logic.stop_refbox()
MainStopRefbox ==
    /\ pc = "stopping"
    /\ DoStopRefbox
    /\ pc' = "done"
    /\ UNCHANGED <<robots, opponents, world, overall_robot_connection_active,
                   pending_updates, ros>>

\* ------------------------------------------ Tk main loop: buttons and ticks
UIConnectToRobots ==
    /\ pc = "mainloop"
    /\ DoConnectToRobots
    /\ UNCHANGED <<opponents, world, refbox, pending_updates,
                   ros, pc>>

UIDisconnectFromRobots ==
    /\ pc = "mainloop"
    /\ DoDisconnectFromRobots
    /\ UNCHANGED <<opponents, world, refbox, pending_updates,
                   ros, pc>>

UIConnectToRefbox ==
    /\ pc = "mainloop"
    /\ LET r == connect_to_refbox(refbox) IN
       /\ refbox' = r.refbox
       /\ lastCall' = Call("connect_to_refbox", <<>>, r.trace, <<>>, <<>>, FALSE)
    /\ UNCHANGED <<robots, opponents, world, overall_robot_connection_active,
                   pending_updates, ros, pc>>

\* root.after(200, self.update_world_state_and_ui) comes due.
UpdateTick ==
    /\ pc = "mainloop"
    /\ pending_updates > 0
    /\ DoUpdate(1)
    /\ UNCHANGED <<robots, opponents, overall_robot_connection_active, refbox,
                   ros, pc>>

\* --------------------------------------------------- background link tasks
\* A robot's WiFiHandler delivers a decoded telemetry sample.
Telemetry(i, s) ==
    /\ Running
    /\ robots[i].wifi_handler /\ robots[i].connected
    /\ robots' = [robots EXCEPT ![i] = RobotReceive(@, s)]
    /\ lastCall' = Call("handle_received_data", <<>>, <<>>, <<>>, <<>>, FALSE)
    /\ UNCHANGED <<opponents, world, overall_robot_connection_active, refbox,
                   pending_updates, ros, pc>>

Deliver(message) ==
    LET r == handle_refbox_message(message) IN
    lastCall' = Call("handle_refbox_message", message, r.trace, <<>>, <<>>, FALSE)

\* The attempt succeeds: the link reports it with a lifecycle line.
RefBoxEstablished(message) ==
    /\ Running
    /\ refbox.state = "Connecting"
    /\ refbox' = RefBoxHandlerEstablished(refbox)
    /\ Deliver(message)
    /\ UNCHANGED <<robots, opponents, world, overall_robot_connection_active,
                   pending_updates, ros, pc>>

\* The attempt is refused or fails.
RefBoxFailed(message) ==
    /\ Running
    /\ refbox.state = "Connecting"
    /\ refbox.failures < MaxFailures
    /\ refbox' = RefBoxHandlerFailed(refbox)
    /\ Deliver(message)
    /\ UNCHANGED <<robots, opponents, world, overall_robot_connection_active,
                   pending_updates, ros, pc>>

\* A decoded line arrives on the established connection.
RefBoxLine(message) ==
    /\ Running
    /\ refbox.state = "Connected"
    /\ Deliver(message)
    /\ UNCHANGED <<robots, opponents, world, overall_robot_connection_active,
                   refbox, pending_updates, ros, pc>>

\* The read loop ends (remote close, read error): disconnect callback.
RefBoxLoopExit ==
    /\ Running
    /\ refbox.state = "Connected"
    /\ refbox' = RefBoxHandlerStop(refbox)
    /\ lastCall' = Call("handle_refbox_disconnect", <<>>,
                        handle_refbox_disconnect.trace, <<>>, <<>>, FALSE)
    /\ UNCHANGED <<robots, opponents, world, overall_robot_connection_active,
                   pending_updates, ros, pc>>

\* The whole program.
Next ==
    \/ MainConnectToRobots
    \/ MainFirstUpdate
    \/ MainCreateNode
    \/ \E kind \in {"o", "e"}, i \in 0..(NumChannels - 1) : PublishTimer(kind, i)
    \/ SpinInterrupt
    \/ CloseWindow
    \/ MainDisconnect
    \/ MainStopRefbox
    \/ UIConnectToRobots
    \/ UIDisconnectFromRobots
    \/ UIConnectToRefbox
    \/ UpdateTick
    \/ \E i \in 1..Len(robots), s \in Samples : Telemetry(i, s)
    \/ \E message \in EstablishedMessages : RefBoxEstablished(message)
    \/ \E message \in FailureMessages : RefBoxFailed(message)
    \/ \E message \in Messages : RefBoxLine(message)
    \/ RefBoxLoopExit

Spec == Init /\ [][Next]_vars

\* The robot links and the refbox link share no state: the fleet, the update
\* cycle and the publish timers are explored with the refbox link idle, the
\* refbox link with the robot links idle.  main() runs in both.
NextFleet ==
    \/ MainConnectToRobots
    \/ MainFirstUpdate
    \/ MainCreateNode
    \/ \E kind \in {"o", "e"}, i \in 0..(NumChannels - 1) : PublishTimer(kind, i)
    \/ SpinInterrupt
    \/ CloseWindow
    \/ MainDisconnect
    \/ MainStopRefbox
    \/ UIConnectToRobots
    \/ UIDisconnectFromRobots
    \/ UpdateTick
    \/ \E i \in 1..Len(robots), s \in Samples : Telemetry(i, s)

SpecFleet == Init /\ [][NextFleet]_vars

NextRefBox ==
    \/ MainConnectToRobots
    \/ MainFirstUpdate
    \/ MainCreateNode
    \/ SpinInterrupt
    \/ CloseWindow
    \/ MainDisconnect
    \/ MainStopRefbox
    \/ UIConnectToRefbox
    \/ \E message \in EstablishedMessages : RefBoxEstablished(message)
    \/ \E message \in FailureMessages : RefBoxFailed(message)
    \/ \E message \in Messages : RefBoxLine(message)
    \/ RefBoxLoopExit

SpecRefBox == Init /\ [][NextRefBox]_vars

\* The coordinator alone: main(), the fleet operations, the update cycle and
\* the refbox link, with the robot telemetry and the publish timers idle.
NextLogic ==
    \/ MainConnectToRobots
    \/ MainFirstUpdate
    \/ MainCreateNode
    \/ SpinInterrupt
    \/ CloseWindow
    \/ MainDisconnect
    \/ MainStopRefbox
    \/ UIConnectToRobots
    \/ UIDisconnectFromRobots
    \/ UIConnectToRefbox
    \/ UpdateTick
    \/ \E message \in EstablishedMessages : RefBoxEstablished(message)
    \/ \E message \in FailureMessages : RefBoxFailed(message)
    \/ \E message \in Messages : RefBoxLine(message)
    \/ RefBoxLoopExit

SpecLogic == Init /\ [][NextLogic]_vars

\* ================================================================= claims
Names(rs) == [i \in 1..Len(rs) |-> rs[i].name]
IsLinked(r) == r.wifi_handler
IsConnectEvent(e) == e.ev = "connect"
IsDisconnectEvent(e) == e.ev = "disconnect"
Who(events) == [i \in 1..Len(events) |-> events[i].who]
AfterConnect == lastCall.op = "connect_to_robots"
AfterDisconnect == lastCall.op = "disconnect_from_robots"
AfterUpdate == lastCall.op = "update_world_state_and_ui"
AfterPublish == lastCall.op = "publish_robot"
ResultValues == {"Connected", "Failed", "No Handler"}

\* C1: connect_to_robots returns a mapping with exactly one entry per robot
\* of the roster, and every value is "Connected", "Failed" or "No Handler".
C1_ResultPerIdentity ==
    AfterConnect =>
        /\ Len(lastCall.results) = Len(robots)
        /\ DictKeys(lastCall.results) = NamesOf(robots)
        /\ Cardinality(DictKeys(lastCall.results)) = Len(robots)
        /\ \A i \in 1..Len(lastCall.results) : lastCall.results[i][2] \in ResultValues

C1_Witness ==
    /\ AfterConnect
    /\ Len(robots) = MaxRobots
    /\ Len(lastCall.results) = MaxRobots
    /\ \E i, j \in 1..Len(robots) : robots[i].wifi_handler /\ ~robots[j].wifi_handler

\* C2: one connect_to_robots call attempts connect() exactly once on every
\* robot that has a link, in roster order and whatever the earlier outcomes,
\* attempts none on a robot without a link, and returns normally with the
\* results of the whole roster.
C2_EveryLinkedRobotAttempted ==
    AfterConnect =>
        /\ Who(SelectSeq(lastCall.trace, IsConnectEvent))
             = Names(SelectSeq(robots, IsLinked))
        /\ ~lastCall.raised
        /\ Len(lastCall.results) = Len(robots)

C2_Witness ==
    /\ AfterConnect
    /\ Len(robots) >= 2
    /\ robots[1].wifi_handler /\ robots[2].wifi_handler
    /\ lastCall.results[1][2] = "Failed"
    /\ lastCall.results[2][2] = "Connected"

\* C3: the value recorded for a robot is "No Handler" exactly when it has no
\* link, "Connected" exactly when it has a link and its connect() returned
\* success, "Failed" exactly when it has a link and its connect() returned
\* failure.
Returned(name, b) ==
    \E k \in 1..Len(lastCall.trace) :
        /\ lastCall.trace[k].ev = "connect"
        /\ lastCall.trace[k].who = name
        /\ lastCall.trace[k].flag = b
C3_ValueMatchesOutcome ==
    AfterConnect =>
        \A i \in 1..Len(robots) :
            /\ robots[i].name \in DictKeys(lastCall.results)
            /\ LET v == DictGet(lastCall.results, robots[i].name) IN
               /\ (v = "No Handler") <=> ~robots[i].wifi_handler
               /\ (v = "Connected") <=>
                      (robots[i].wifi_handler /\ Returned(robots[i].name, TRUE))
               /\ (v = "Failed") <=>
                      (robots[i].wifi_handler /\ Returned(robots[i].name, FALSE))

C3_Witness ==
    /\ AfterConnect
    /\ Len(robots) = 2
    /\ robots[1].wifi_handler /\ ~robots[2].wifi_handler
    /\ Returned("R1", TRUE)
    /\ lastCall.results = << <<"R1", "Connected">>, <<"R2", "No Handler">> >>

\* C4: a connect_to_robots call requests update_robot_ui_elements exactly
\* once, as its last step, after the last robot of the roster was handled.
C4_RefreshOnceAtEnd ==
    AfterConnect =>
        /\ Count(lastCall.trace, "update_robot_ui_elements") = 1
        /\ Positions(lastCall.trace, "update_robot_ui_elements") = {Len(lastCall.trace)}
        /\ \A k \in Positions(lastCall.trace, "connect") : k < Len(lastCall.trace)
        /\ \A k \in Positions(lastCall.trace, "log_message") : k < Len(lastCall.trace)

C4_Witness ==
    /\ AfterConnect
    /\ Count(lastCall.trace, "connect") >= 2
    /\ Count(lastCall.trace, "update_robot_ui_elements") = 1

\* C5: after disconnect_from_robots, a second disconnect_from_robots leaves
\* every robot's connected state and overall_robot_connection_active as the
\* first call left them and raises nothing; each call invokes disconnect()
\* on every robot of the roster, connected or not.
C5_DisconnectIdempotent ==
    AfterDisconnect =>
        LET again == disconnect_from_robots(robots) IN
        /\ Who(SelectSeq(lastCall.trace, IsDisconnectEvent)) = Names(robots)
        /\ ~lastCall.raised
        /\ \A i \in 1..Len(robots) : ~robots[i].connected
        /\ again.robots = robots
        /\ again.active = overall_robot_connection_active
        /\ ~again.raised
        /\ Who(SelectSeq(again.trace, IsDisconnectEvent)) = Names(robots)

\* A disconnect on a roster with a robot that was connected (it has
\* delivered telemetry) and a robot that never had a link.
C5_Witness ==
    /\ AfterDisconnect
    /\ \E i, j \in 1..Len(robots) :
          /\ robots[i].telemetry # NoSample
          /\ ~robots[j].wifi_handler

\* C6: a connect_to_refbox call made while the refbox link is connected
\* makes no call to RefBoxHandler.connect(); it only logs.
C6_NoSecondAttempt ==
    [][(refbox.connected /\ lastCall'.op = "connect_to_refbox") =>
          /\ Count(lastCall'.trace, "RefBoxHandler.connect") = 0
          /\ Count(lastCall'.trace, "log_message") = 1
          /\ refbox' = refbox]_vars

C6_Witness ==
    /\ lastCall.op = "connect_to_refbox"
    /\ refbox.state = "Connected"
    /\ lastCall.trace = <<Ev("log_message", "")>>

\* C7: every text delivered to handle_refbox_message is passed unchanged to
\* log_refbox_message exactly once, as the last step of the handler.
AfterMessage == lastCall.op = "handle_refbox_message"
IsLogRefbox(e) == e.ev = "log_refbox_message"
IsStatus(e) == e.ev = "update_refbox_status"
StatusFlags(trace) ==
    LET st == SelectSeq(trace, IsStatus) IN [i \in 1..Len(st) |-> st[i].flag]
LoggedOnce ==
    LET logs == SelectSeq(lastCall.trace, IsLogRefbox) IN
    /\ Len(logs) = 1
    /\ logs[1].text = lastCall.arg
    /\ lastCall.trace[Len(lastCall.trace)] = logs[1]
HasEstablished(m) ==
    Contains(S_ConnectionEstablished, m) \/ Contains(S_ConnectedToRefBox, m)

\* C7 as stated: ... and every text containing "connection refused" fires
\* the status callback with connected=false.
C7_AsStated ==
    AfterMessage =>
        /\ LoggedOnce
        /\ Contains(S_connection_refused, lastCall.arg)
              => StatusFlags(lastCall.trace) = <<FALSE>>

\* C7 amended: ... and a text containing "connection refused" fires the
\* status callback with connected=false unless it also contains an
\* established sentinel, in which case the callback fires with
\* connected=true; either way the text is logged.
C7_LoggedAndClassified ==
    AfterMessage =>
        /\ LoggedOnce
        /\ (Contains(S_connection_refused, lastCall.arg)
               /\ ~HasEstablished(lastCall.arg))
              => StatusFlags(lastCall.trace) = <<FALSE>>
        /\ (Contains(S_connection_refused, lastCall.arg)
               /\ HasEstablished(lastCall.arg))
              => StatusFlags(lastCall.trace) = <<TRUE>>

C7_Witness ==
    /\ AfterMessage
    /\ lastCall.arg = M_Refused
    /\ lastCall.trace = <<EvFlag("update_refbox_status", FALSE),
                          EvText("log_refbox_message", M_Refused)>>

\* C8: with no telemetry delivered in between, a second run of the merge of
\* the update cycle yields the snapshot the first run left.
C8_MergeIdempotent ==
    AfterUpdate =>
        update_world_state_and_ui(world, robots, pending_updates).world = world

C8_Witness ==
    /\ AfterUpdate
    /\ \E i \in 1..Len(robots) :
          /\ robots[i].telemetry # NoSample
          /\ world[robots[i].name] = robots[i].telemetry

\* C9: an update cycle sets the entry of every identity whose link holds a
\* telemetry sample to that sample and leaves every other entry as it was.
Linked(id) == {i \in 1..Len(robots) : robots[i].name = id /\ HasSample(robots[i])}
C9_MergeFrame ==
    [][lastCall'.op = "update_world_state_and_ui" =>
          \A id \in DOMAIN world :
              IF Linked(id) # {}
              THEN \A i \in Linked(id) : world'[id] = robots[i].telemetry
              ELSE world'[id] = world[id]]_vars

C9_Witness ==
    /\ AfterUpdate
    /\ Len(robots) = 2
    /\ robots[1].telemetry = <<FloatNum(1), FloatNum(2)>>
    /\ world["R1"] = <<FloatNum(1), FloatNum(2)>>
    /\ robots[2].telemetry = NoSample
    /\ world["R2"] = DefaultPosition

\* C10: publish_robot emits no message for a roster index greater than or
\* equal to the size of the node's roster.
C10_NoEmitBeyondRoster ==
    AfterPublish =>
        \A k \in 1..Len(lastCall.emitted) :
            /\ lastCall.emitted[k].robot_index < Len(ros.robots)
            /\ lastCall.emitted[k].robot_index = lastCall.arg[1]
            /\ \E slot \in 1..Len(ros.robots) :
                  lastCall.emitted[k].entity = ros.robots[slot]

\* A timer whose index lies beyond the roster fired and was skipped.
C10_Witness ==
    /\ AfterPublish
    /\ Len(ros.robots) >= 1
    /\ lastCall.arg[1] >= Len(ros.robots)
    /\ lastCall.emitted = <<>>
    /\ ~lastCall.raised

\* C11 as stated: a firing of any of the ten channel timers publishes one
\* message or skips silently; it never raises.
C11_TimerNeverRaises ==
    AfterPublish =>
        /\ ~lastCall.raised
        /\ Len(lastCall.emitted) \in {0, 1}

\* C12 as stated: channel o{k} emits the position of the k-th own robot and
\* channel e{k} the position of the k-th opponent.
C12_ChannelCarriesOwnSlot ==
    AfterPublish =>
        \A n \in 1..Len(lastCall.emitted) :
            LET m == lastCall.emitted[n] IN
            /\ m.label[1] = "o" =>
                 /\ m.entity = <<"robot", m.label[2]>>
                 /\ m.label[2] <= Len(robots)
                 /\ m.data = Append(robots[m.label[2]].position, FloatNum(0))
            /\ m.label[1] = "e" =>
                 /\ m.entity = <<"opponent", m.label[2]>>
                 /\ m.label[2] <= Len(opponents)
                 /\ m.data = Append(opponents[m.label[2]].position, FloatNum(0))

\* C13: at shutdown the publish timers are stopped first, then every robot
\* is disconnected, then the refbox link is stopped: a robot disconnect
\* never happens while the timers run, and stop_refbox never happens before
\* the robots were disconnected.
AllDisconnected == \A i \in 1..Len(robots) : ~robots[i].connected
TimersStopped == ros.created /\ ~ros.timers
C13_ShutdownOrder ==
    /\ AfterDisconnect => TimersStopped
    /\ pc = "stopping" => (TimersStopped /\ AllDisconnected)
    /\ lastCall.op = "stop_refbox" =>
          /\ pc = "done"
          /\ TimersStopped
          /\ AllDisconnected
          /\ ~overall_robot_connection_active

\* The clean-up ran to its end on a roster with a robot that had been
\* connected (it delivered telemetry).
C13_Witness ==
    /\ pc = "done"
    /\ lastCall.op = "stop_refbox"
    /\ \E i \in 1..Len(robots) : robots[i].telemetry # NoSample

\* C14 as stated: the update cycle and the publish timers run side by side:
\* while the timers are active a pending update tick can fire, and a
\* scheduled update tick fires only while the timers are still active (the
\* update loop does not start only after the publish loop has ended).
C14_LoopsRunSideBySide ==
    /\ (ros.timers /\ pending_updates > 0) => ENABLED UpdateTick
    /\ (AfterUpdate /\ ros.created) => ros.timers

HasFailure(m) ==
    Contains(S_connection_refused, m) \/ Contains(S_connection_error, m)
\* stop_refbox reports through the disconnect callback that stop() triggers,
\* every other operation reports nothing.
OtherOpsReportNothing ==
    /\ lastCall.op = "stop_refbox" =>
          \/ lastCall.trace = <<Ev("RefBoxHandler.stop", "")>>
          \/ lastCall.trace = <<Ev("RefBoxHandler.stop", "")>>
                                 \o handle_refbox_disconnect.trace
    /\ lastCall.op \notin {"handle_refbox_message", "handle_refbox_disconnect",
                           "stop_refbox"}
          => StatusFlags(lastCall.trace) = <<>>
C16_AsStated ==
    /\ AfterMessage =>
          /\ HasEstablished(lastCall.arg) => StatusFlags(lastCall.trace) = <<TRUE>>
          /\ HasFailure(lastCall.arg) => StatusFlags(lastCall.trace) = <<FALSE>>
          /\ (~HasEstablished(lastCall.arg) /\ ~HasFailure(lastCall.arg))
                => StatusFlags(lastCall.trace) = <<>>
    /\ lastCall.op = "handle_refbox_disconnect"
          => StatusFlags(lastCall.trace) = <<FALSE>>
    /\ OtherOpsReportNothing

\* C16 amended: ... a text containing an established sentinel reports
\* connected=true even when it also contains a failure sentinel; a text
\* containing the refused or the error sentinel and no established
\* sentinel reports connected=false; the disconnect callback reports
\* connected=false; any other text or operation reports nothing.
C16_StatusOnlyOnLifecycle ==
    /\ AfterMessage =>
          StatusFlags(lastCall.trace) =
              IF HasEstablished(lastCall.arg) THEN <<TRUE>>
              ELSE IF HasFailure(lastCall.arg) THEN <<FALSE>>
              ELSE <<>>
    /\ lastCall.op = "handle_refbox_disconnect"
          => StatusFlags(lastCall.trace) = <<FALSE>>
    /\ OtherOpsReportNothing

\* A text that nearly matches a sentinel arrives and is only logged.
C16_Witness ==
    /\ AfterMessage
    /\ lastCall.arg = M_NearMiss
    /\ lastCall.trace = <<EvText("log_refbox_message", M_NearMiss)>>

\* C17: Failed is not terminal: a connect_to_refbox call made in state Failed
\* starts a new connection attempt (Failed -> Connecting) and is not
\* suppressed as already connected, after any number of consecutive failures.
C17_FailedIsNotTerminal ==
    /\ [](refbox.state = "Failed" =>
            LET r == connect_to_refbox(refbox) IN
            /\ r.trace = <<Ev("RefBoxHandler.connect", "")>>
            /\ r.refbox.state = "Connecting")
    /\ [][(refbox.state = "Failed" /\ lastCall'.op = "connect_to_refbox") =>
            /\ lastCall'.trace = <<Ev("RefBoxHandler.connect", "")>>
            /\ refbox'.state = "Connecting"
            /\ refbox'.failures = refbox.failures]_vars

\* A new attempt was started after MaxFailures failures in a row.
C17_Witness ==
    /\ lastCall.op = "connect_to_refbox"
    /\ lastCall.trace = <<Ev("RefBoxHandler.connect", "")>>
    /\ refbox.state = "Connecting"
    /\ refbox.failures = MaxFailures

\* C18: overall_robot_connection_active is false initially, true after every
\* connect_to_robots and false after every disconnect_from_robots, whatever
\* the robots' own outcomes; no other operation (refbox operations, refbox
\* callbacks, update cycles, node construction) changes it.
FleetOps == {"connect_to_robots", "disconnect_from_robots"}
C18_FlagFollowsLastFleetOp ==
    /\ [](lastCall.op = "__init__" => ~overall_robot_connection_active)
    /\ [][/\ lastCall'.op = "connect_to_robots"
                => overall_robot_connection_active'
          /\ lastCall'.op = "disconnect_from_robots"
                => ~overall_robot_connection_active'
          /\ lastCall'.op \notin FleetOps
                => overall_robot_connection_active'
                      = overall_robot_connection_active]_vars

\* The flag is set by a connect in which no robot got connected, and is still
\* set after refbox traffic.
C18_Witness ==
    /\ overall_robot_connection_active
    /\ Len(robots) >= 1
    /\ AllDisconnected
    /\ lastCall.op = "handle_refbox_message"

\* C19: every run of the update cycle performs merge, redraw, widget refresh
\* and reschedule in that order, the single reschedule coming last; at most
\* one update tick is pending at any time.
CycleSteps ==
    <<"update_from_robots", "redraw_field", "update_robot_ui_elements", "after">>
C19_CycleOrderedAndSingle ==
    /\ pending_updates <= 1
    /\ AfterUpdate =>
          /\ [n \in 1..Len(lastCall.trace) |-> lastCall.trace[n].ev] = CycleSteps
          /\ pending_updates = 1

\* A tick came due in the main loop and the cycle rescheduled itself.
C19_Witness ==
    /\ AfterUpdate
    /\ pc = "mainloop"
    /\ pending_updates = 1
    /\ \E i \in 1..Len(robots) : world[robots[i].name] # DefaultPosition

\* C20: constructing ROSBaseStation and every publish_robot firing leave the
\* stored position of every robot and opponent and every WorldState entry
\* with the same value and the same length; the trailing 0.0 exists only in
\* the emitted message; WorldState entries change only in the merge step.
\* Python list equality: equal lengths and numerically equal items (0 == 0.0).
SameValue(p, q) ==
    /\ Len(p) = Len(q)
    /\ \A j \in 1..Len(p) : p[j].v = q[j].v
BridgeOps == {"ROSBaseStation", "publish_robot"}
C20_BridgeKeepsPositions ==
    [][/\ lastCall'.op \in BridgeOps =>
            /\ Len(robots') = Len(robots)
            /\ Len(opponents') = Len(opponents)
            /\ \A i \in 1..Len(robots) :
                   SameValue(robots[i].position, robots'[i].position)
            /\ \A j \in 1..Len(opponents) :
                   SameValue(opponents[j].position, opponents'[j].position)
            /\ world' = world
            /\ \A n \in 1..Len(lastCall'.emitted) :
                   LET m == lastCall'.emitted[n] IN
                   m.data = Append(Entity(m.entity, robots, opponents).position,
                                   FloatNum(0))
       /\ world' # world => lastCall'.op = "update_world_state_and_ui"]_vars

\* A robot's telemetry position of two coordinates was published with three.
C20_Witness ==
    /\ AfterPublish
    /\ Len(lastCall.emitted) = 1
    /\ lastCall.emitted[1].entity = <<"robot", 1>>
    /\ Len(lastCall.emitted[1].data) = 3
    /\ Len(robots) >= 1
    /\ robots[1].position \in Samples

====
